---- MODULE Spec2Model ----
(***************************************************************************)
(* Model of the quest tracker of src/main.py: the tables personajes,       *)
(* misiones and misiones_personaje, the HTTP handlers that read and write   *)
(* them, and the per-character queue ColaMisiones.  Every handler runs as   *)
(* one atomic step (one request, one session, one commit).                  *)
(***************************************************************************)
EXTENDS Integers, Sequences, FiniteSets, TLC

\* ------------------------------------------------------------------ bounds
MaxPersonajes == 2
MaxMisionId == 2
MaxSecuencia == 2
MaxOrden == 1
MaxRecompensa == 1
NumHilos == 2
MaxPeticiones == 3

\* A NULL column value (misiones_personaje.mision_id is a nullable foreign key).
NULL == 0

PersonajeIds == 1..MaxPersonajes
MisionIds == 1..MaxMisionId
Ordenes == 0..MaxOrden
Recompensas == {0 - 1} \cup (1..MaxRecompensa)
Hilos == 1..NumHilos

VARIABLES
    personajes,     \* table personajes: id -> experiencia
    misiones,       \* table misiones: id -> experiencia (the reward)
    relaciones,     \* table misiones_personaje: a set of rows
    secuencia,      \* number of rows ever inserted into misiones_personaje
    aceptadas,      \* history: the <<personaje, mision>> pairs accepted
    encoladas,      \* history: the <<personaje, mision>> pairs enqueued
    resp,           \* the last request and its response
    hilos,          \* concurrent requests: what each worker thread has read
    ganado,         \* history: character -> sum of the experiencia_ganada
                    \* the concurrent completar_mision requests returned
    peticiones      \* number of concurrent requests started

vars == <<personajes, misiones, relaciones, secuencia, aceptadas, encoladas,
          resp, hilos, ganado, peticiones>>

\* ----------------------------------------------------------------- helpers
Max(S) == CHOOSE x \in S : \A y \in S : y <= x

\* One request/response pair.  antes is the number of pending rows of pid
\* in the state the request found; orden is the orden of the request body of
\* an accepted aceptar_mision and 0 in every other response; detail is the
\* message of the source written without its accents.
Respuesta(op, pid, mid, orden, status, detail, val, antes) ==
    [op |-> op, pid |-> pid, mid |-> mid, orden |-> orden, status |-> status,
     detail |-> detail, val |-> val, antes |-> antes]

NumPendientes(rels, pid) ==
    Cardinality({r \in rels : r.personaje_id = pid /\ ~r.estado})

\* A new row of misiones_personaje; estado defaults to False.  No handler
\* reads the primary key of a row, so a row is identified by seq, its rank
\* among the rows ever inserted; via records the handler that inserted it.
MisionPersonaje(pid, mid, orden, via) ==
    [personaje_id |-> pid, mision_id |-> mid, orden |-> orden,
     estado |-> FALSE, via |-> via, seq |-> secuencia + 1]

\* The primary key SQLite gives the next row of misiones.  The tables are
\* those Base.metadata.create_all makes: "id INTEGER PRIMARY KEY" without
\* AUTOINCREMENT, so the key is one more than the largest key in the table
\* and the key of a deleted quest can come back.
SiguienteMisionId ==
    IF DOMAIN misiones = {} THEN 1 ELSE Max(DOMAIN misiones) + 1

\* Pendientes without estado=False: every row of the character.
Pendientes_todas(pid) == {r \in relaciones : r.personaje_id = pid}

\* filter_by(personaje_id=pid, estado=False)
Pendientes(pid) == {r \in relaciones : r.personaje_id = pid /\ ~r.estado}

\* The sort of PrimerasAsc turned round: the rows of greatest orden.
PrimerasAsc_desc(S) == {r \in S : \A s \in S : r.orden >= s.orden}

\* .order_by(MisionPersonaje.orden.asc()).first(): the rows the store may
\* return first; no secondary sort key, so any row of least orden.
PrimerasAsc(S) == {r \in S : \A s \in S : r.orden <= s.orden}

\* .order_by(MisionPersonaje.orden.desc()).first()
PrimerasDesc(S) == {r \in S : \A s \in S : r.orden >= s.orden}

\* A worker thread with no request in hand.
HiloLibre ==
    [pc |-> "libre", pid |-> NULL, mid |-> NULL, orden |-> 0,
     personaje |-> {}, mision |-> {}, relacion |-> {}, siguiente_orden |-> 0]

Init ==
    /\ hilos = [t \in Hilos |-> HiloLibre]
    /\ ganado = <<>>
    /\ peticiones = 0
    /\ personajes = <<>>
    /\ misiones = <<>>
    /\ relaciones = {}
    /\ secuencia = 0
    /\ aceptadas = {}
    /\ encoladas = {}
    /\ resp = Respuesta("inicio", NULL, NULL, 0, 200, "", NULL, 0)

\* POST /personajes
crear_personaje ==
    /\ Cardinality(DOMAIN personajes) < MaxPersonajes
    /\ LET id == Cardinality(DOMAIN personajes) + 1 IN
        /\ personajes' = personajes @@ (id :> 0)
        /\ resp' = Respuesta("crear_personaje", id, NULL, 0, 200, "", 0, 0)
    /\ UNCHANGED <<misiones, relaciones, secuencia,
                   aceptadas, encoladas>>

\* POST /misiones
crear_mision(experiencia) ==
    LET id == SiguienteMisionId IN
    /\ id <= MaxMisionId
    /\ misiones' = misiones @@ (id :> experiencia)
    /\ resp' = Respuesta("crear_mision", NULL, id, 0, 200, "", experiencia, 0)
    /\ UNCHANGED <<personajes, relaciones, secuencia,
                   aceptadas, encoladas>>

\* PUT /misiones/{id}: only the description changes, which the model does
\* not keep.
actualizar_mision(id) ==
    /\ resp' = IF id \notin DOMAIN misiones
               THEN Respuesta("actualizar_mision", NULL, id, 0, 404,
                              "Mision no encontrada", NULL, 0)
               ELSE Respuesta("actualizar_mision", NULL, id, 0, 200, "",
                              misiones[id], 0)
    /\ UNCHANGED <<personajes, misiones, relaciones, secuencia, aceptadas, encoladas>>

\* What the flush of db.delete(mision) does to misiones_personaje: the
\* relationship Mision.personajes has no delete cascade, so the rows of the
\* deleted quest stay and their mision_id is set to NULL.
SinMision(rels, id) ==
    {IF r.mision_id = id THEN [r EXCEPT !.mision_id = NULL] ELSE r : r \in rels}

\* DELETE /misiones/{id}
eliminar_mision(id) ==
    IF id \notin DOMAIN misiones
    THEN /\ resp' = Respuesta("eliminar_mision", NULL, id, 0, 404,
                              "Mision no encontrada", NULL, 0)
         /\ UNCHANGED <<personajes, misiones, relaciones, secuencia, aceptadas, encoladas>>
    ELSE /\ misiones' = [m \in DOMAIN misiones \ {id} |-> misiones[m]]
         /\ relaciones' = SinMision(relaciones, id)
         /\ resp' = Respuesta("eliminar_mision", NULL, id, 0, 200,
                              "Mision eliminada", NULL, 0)
         /\ UNCHANGED <<personajes, secuencia,
                        aceptadas, encoladas>>

\* YaAsignada without estado=False: resolved rows count as assigned.
YaAsignada_sinEstado(pid, mid) ==
    {r \in relaciones : r.personaje_id = pid /\ r.mision_id = mid}

\* ya_asignada: filter_by(personaje_id, mision_id, estado=False)
YaAsignada(pid, mid) == {r \in Pendientes(pid) : r.mision_id = mid}

\* POST /aceptar_mision
aceptar_mision(pid, mid, orden) ==
    LET antes == NumPendientes(relaciones, pid) IN
    IF pid \notin DOMAIN personajes
    THEN /\ resp' = Respuesta("aceptar_mision", pid, mid, 0, 404,
                              "Personaje no encontrado", NULL, antes)
         /\ UNCHANGED <<personajes, misiones, relaciones, secuencia, aceptadas, encoladas>>
    ELSE IF mid \notin DOMAIN misiones
    THEN /\ resp' = Respuesta("aceptar_mision", pid, mid, 0, 404,
                              "Mision no encontrada", NULL, antes)
         /\ UNCHANGED <<personajes, misiones, relaciones, secuencia, aceptadas, encoladas>>
    ELSE IF YaAsignada(pid, mid) # {}
    THEN /\ resp' = Respuesta("aceptar_mision", pid, mid, 0, 400,
                              "La mision ya fue aceptada por este personaje",
                              NULL, antes)
         /\ UNCHANGED <<personajes, misiones, relaciones, secuencia, aceptadas, encoladas>>
    ELSE /\ secuencia < MaxSecuencia
         /\ relaciones' = relaciones \cup
               {MisionPersonaje(pid, mid, orden, "aceptar")}
         /\ secuencia' = secuencia + 1
         /\ aceptadas' = aceptadas \cup {<<pid, mid>>}
         /\ resp' = Respuesta("aceptar_mision", pid, mid, orden, 200,
                              "Mision aceptada correctamente", NULL, antes)
         /\ UNCHANGED <<personajes, misiones, encoladas>>

\* RelacionACompletar without mision_id: any pending row of the character.
RelacionACompletar_cualquiera(pid, mid) == PrimerasAsc(Pendientes(pid))

\* RelacionACompletar sorted the wrong way: the pending row of greatest orden.
RelacionACompletar_mayor(pid, mid) == PrimerasDesc(YaAsignada(pid, mid))

\* The row completar_mision works on: the pending rows of the pair, least
\* orden first.
RelacionACompletar(pid, mid) == PrimerasAsc(YaAsignada(pid, mid))

\* POST /completar_mision
completar_mision(pid, mid) ==
    LET antes == NumPendientes(relaciones, pid) IN
    IF mid \notin DOMAIN misiones
    THEN /\ resp' = Respuesta("completar_mision", pid, mid, 0, 404,
                              "Mision no encontrada", NULL, antes)
         /\ UNCHANGED <<personajes, misiones, relaciones, secuencia, aceptadas, encoladas>>
    ELSE IF pid \notin DOMAIN personajes
    THEN /\ resp' = Respuesta("completar_mision", pid, mid, 0, 404,
                              "Personaje no encontrado", NULL, antes)
         /\ UNCHANGED <<personajes, misiones, relaciones, secuencia, aceptadas, encoladas>>
    ELSE IF RelacionACompletar(pid, mid) = {}
    THEN /\ resp' = Respuesta("completar_mision", pid, mid, 0, 400,
                              "El personaje no tiene asignada esta mision",
                              NULL, antes)
         /\ UNCHANGED <<personajes, misiones, relaciones, secuencia, aceptadas, encoladas>>
    ELSE \E relacion \in RelacionACompletar(pid, mid) :
         IF relacion.estado
         THEN /\ resp' = Respuesta("completar_mision", pid, mid, 0, 400,
                          "La mision ya fue completada para este personaje",
                          NULL, antes)
              /\ UNCHANGED <<personajes, misiones, relaciones, secuencia, aceptadas, encoladas>>
         ELSE LET total == personajes[pid] + misiones[mid] IN
              /\ personajes' = [personajes EXCEPT ![pid] = total]
              /\ relaciones' = (relaciones \ {relacion}) \cup
                                  {[relacion EXCEPT !.estado = TRUE]}
              /\ resp' = Respuesta("completar_mision", pid, mid, 0, 200,
                          "Mision completada con exito",
                          [experiencia_ganada |-> misiones[mid],
                           experiencia_total |-> total], antes)
              /\ UNCHANGED <<misiones, secuencia,
                             aceptadas, encoladas>>

\* SiguienteOrden without the "+ 1".
SiguienteOrden_sinIncremento(pid) ==
    LET todas == {r \in relaciones : r.personaje_id = pid} IN
    IF todas = {} THEN 0
    ELSE (CHOOSE r \in PrimerasDesc(todas) : TRUE).orden

\* SiguienteOrden over the pending rows only.
SiguienteOrden_soloPendientes(pid) ==
    IF Pendientes(pid) = {} THEN 0
    ELSE (CHOOSE r \in PrimerasDesc(Pendientes(pid)) : TRUE).orden + 1

\* siguiente_orden of ColaMisiones.enqueue: one more than the largest orden
\* among all the rows of the character, resolved ones included; 0 if none.
SiguienteOrden(pid) ==
    LET todas == {r \in relaciones : r.personaje_id = pid} IN
    IF todas = {} THEN 0
    ELSE (CHOOSE r \in PrimerasDesc(todas) : TRUE).orden + 1

\* ColaMisiones.enqueue, through POST /cola/{personaje_id}/enqueue
enqueue(pid, mid) ==
    /\ secuencia < MaxSecuencia
    /\ relaciones' = relaciones \cup
          {MisionPersonaje(pid, mid, SiguienteOrden(pid), "enqueue")}
    /\ secuencia' = secuencia + 1
    /\ encoladas' = encoladas \cup {<<pid, mid>>}
    /\ resp' = Respuesta("enqueue", pid, mid, 0, 200,
                         "Mision encolada correctamente", NULL,
                         NumPendientes(relaciones, pid))
    /\ UNCHANGED <<personajes, misiones, aceptadas>>

\* PrimeraDeCola without estado=False: resolved rows stay in the queue.
PrimeraDeCola_sinEstado(pid) ==
    PrimerasAsc({r \in relaciones : r.personaje_id = pid})

\* primera of ColaMisiones.dequeue and ColaMisiones.first
PrimeraDeCola(pid) == PrimerasAsc(Pendientes(pid))

\* dequeue that credits the reward of the quest it removes, as
\* completar_mision does.
dequeue_conExperiencia(pid) ==
    /\ PrimeraDeCola(pid) # {}
    /\ \E primera \in PrimeraDeCola(pid) :
         /\ relaciones' = relaciones \ {primera}
         /\ personajes' =
               IF pid \in DOMAIN personajes /\ primera.mision_id \in DOMAIN misiones
               THEN [personajes EXCEPT ![pid] = @ + misiones[primera.mision_id]]
               ELSE personajes
         /\ resp' = Respuesta("dequeue", pid, NULL, 0, 200,
                              "Mision eliminada de la cola",
                              primera.mision_id, NumPendientes(relaciones, pid))
         /\ UNCHANGED <<misiones, secuencia, aceptadas, encoladas>>

\* ColaMisiones.dequeue, through POST /cola/{personaje_id}/dequeue
dequeue(pid) ==
    LET antes == NumPendientes(relaciones, pid) IN
    IF PrimeraDeCola(pid) = {}
    THEN /\ resp' = Respuesta("dequeue", pid, NULL, 0, 404,
                              "La cola esta vacia", NULL, antes)
         /\ UNCHANGED <<personajes, misiones, relaciones, secuencia, aceptadas, encoladas>>
    ELSE \E primera \in PrimeraDeCola(pid) :
         /\ relaciones' = relaciones \ {primera}
         /\ resp' = Respuesta("dequeue", pid, NULL, 0, 200,
                              "Mision eliminada de la cola",
                              primera.mision_id, antes)
         /\ UNCHANGED <<personajes, misiones, secuencia, aceptadas, encoladas>>

\* ColaMisiones.first, through GET /cola/{personaje_id}/first.  primera.mision
\* is None when the row's quest is gone, and None does not fit the
\* response_model MisionResponse: the request ends in a 500.
first(pid) ==
    LET antes == NumPendientes(relaciones, pid) IN
    /\ IF PrimeraDeCola(pid) = {}
       THEN resp' = Respuesta("first", pid, NULL, 0, 404,
                              "La cola esta vacia", NULL, antes)
       ELSE \E primera \in PrimeraDeCola(pid) :
            resp' = IF primera.mision_id \in DOMAIN misiones
                    THEN Respuesta("first", pid, NULL, 0, 200, "",
                                   primera.mision_id, antes)
                    ELSE Respuesta("first", pid, NULL, 0, 500,
                                   "Internal Server Error", NULL, antes)
    /\ UNCHANGED <<personajes, misiones, relaciones, secuencia, aceptadas, encoladas>>

\* cantidad of ColaMisiones.size and ColaMisiones.is_empty
size(pid) == Cardinality(Pendientes(pid))

\* GET /cola/{personaje_id}/size
tamano_cola(pid) ==
    /\ resp' = Respuesta("size", pid, NULL, 0, 200, "", size(pid),
                         NumPendientes(relaciones, pid))
    /\ UNCHANGED <<personajes, misiones, relaciones, secuencia, aceptadas, encoladas>>

\* GET /cola/{personaje_id}/is_empty
cola_vacia(pid) ==
    /\ resp' = Respuesta("is_empty", pid, NULL, 0, 200, "", size(pid) = 0,
                         NumPendientes(relaciones, pid))
    /\ UNCHANGED <<personajes, misiones, relaciones, secuencia, aceptadas, encoladas>>

\* query(MisionPersonaje).join(Mision).filter(personaje_id, estado == False):
\* the inner join keeps only the rows whose mision_id is a row of misiones.
RelacionesActivas(pid) == {r \in Pendientes(pid) : r.mision_id \in DOMAIN misiones}

\* .order_by(MisionPersonaje.orden.asc()).all(): every listing of S by
\* ascending orden (rows of equal orden in any order).
OrdenadasAsc(S) ==
    {f \in [1..Cardinality(S) -> S] :
        /\ \A i, j \in 1..Cardinality(S) : i < j => f[i] # f[j]
        /\ \A i, j \in 1..Cardinality(S) : i < j => f[i].orden <= f[j].orden}

\* The status an HTTPException raised inside the try block of
\* obtener_misiones_por_personaje leaves the handler with: "except Exception"
\* catches it and raises a 500 in its place.
EstadoTrasExcept(status) == 500

\* GET /misiones?personaje_id=
obtener_misiones_por_personaje(pid) ==
    LET antes == NumPendientes(relaciones, pid) IN
    /\ IF pid \notin DOMAIN personajes
       THEN resp' = Respuesta("obtener_misiones", pid, NULL, 0,
                              EstadoTrasExcept(404),
                              "Error interno: 404: Personaje no encontrado",
                              NULL, antes)
       ELSE \E rs \in OrdenadasAsc(RelacionesActivas(pid)) :
            resp' = Respuesta("obtener_misiones", pid, NULL, 0, 200, "",
                              [i \in 1..Len(rs) |-> rs[i].mision_id], antes)
    /\ UNCHANGED <<personajes, misiones, relaciones, secuencia, aceptadas, encoladas>>

\* One request at a time: each handler runs from its first query to its
\* commit with nothing in between.
Next ==
  /\ UNCHANGED <<hilos, ganado, peticiones>>
  /\
    \/ crear_personaje
    \/ \E e \in Recompensas : crear_mision(e)
    \/ \E id \in MisionIds : actualizar_mision(id)
    \/ \E id \in MisionIds : eliminar_mision(id)
    \/ \E pid \in PersonajeIds, mid \in MisionIds, orden \in Ordenes :
          aceptar_mision(pid, mid, orden)
    \/ \E pid \in PersonajeIds, mid \in MisionIds : completar_mision(pid, mid)
    \/ \E pid \in PersonajeIds, mid \in MisionIds : enqueue(pid, mid)
    \/ \E pid \in PersonajeIds : dequeue(pid)
    \/ \E pid \in PersonajeIds : first(pid)
    \/ \E pid \in PersonajeIds : tamano_cola(pid)
    \/ \E pid \in PersonajeIds : cola_vacia(pid)
    \/ \E pid \in PersonajeIds : obtener_misiones_por_personaje(pid)

Spec == Init /\ [][Next]_vars

\* ------------------------------------------------------- concurrent requests
\* The handlers are plain "def" routes, which FastAPI runs on a pool of worker
\* threads, each with its own session (get_db).  A session sends its INSERT
\* and UPDATE statements at commit and takes no lock for its queries, so
\* between the queries of a request and its commit the requests of the other
\* threads can run.  Each request is two steps: Leer (its queries) and the
\* step that ends in db.commit().

\* db.query(Personaje).filter(Personaje.id == pid).first(): the experiencia
\* of the row, or nothing.
LeerPersonaje(pid) == IF pid \in DOMAIN personajes THEN {personajes[pid]} ELSE {}

\* db.query(Mision).filter(Mision.id == mid).first()
LeerMision(mid) == IF mid \in DOMAIN misiones THEN {misiones[mid]} ELSE {}

\* What .first() gives of the rows S the store lists: one row, or nothing.
First(S) == IF S = {} THEN {{}} ELSE {{r} : r \in S}

Empieza(t, pc, pid, mid, orden, relacion, siguiente_orden) ==
    /\ hilos[t].pc = "libre"
    /\ peticiones < MaxPeticiones
    /\ peticiones' = peticiones + 1
    /\ hilos' = [hilos EXCEPT ![t] =
          [pc |-> pc, pid |-> pid, mid |-> mid, orden |-> orden,
           personaje |-> LeerPersonaje(pid), mision |-> LeerMision(mid),
           relacion |-> relacion, siguiente_orden |-> siguiente_orden]]

Termina(t) == hilos' = [hilos EXCEPT ![t] = HiloLibre]

\* aceptar_mision, its three queries
AceptarLeer(t, pid, mid, orden) ==
    /\ \E ya \in First(YaAsignada(pid, mid)) :
          Empieza(t, "aceptar", pid, mid, orden, ya, 0)
    /\ UNCHANGED <<personajes, misiones, relaciones, secuencia, aceptadas,
                   encoladas, resp, ganado>>

\* ya_asignada looked up again at the time of the insert.
ya_asignada_releida(t) == YaAsignada(hilos[t].pid, hilos[t].mid) # {}

\* "if ya_asignada": the row the query of this request found.
ya_asignada(t) == hilos[t].relacion # {}

\* aceptar_mision, from its checks to db.commit()
AceptarInsertar(t) ==
    /\ hilos[t].pc = "aceptar"
    /\ Termina(t)
    /\ IF hilos[t].personaje = {} \/ hilos[t].mision = {} \/ ya_asignada(t)
       THEN UNCHANGED <<relaciones, secuencia>>
       ELSE /\ secuencia < MaxSecuencia
            /\ relaciones' = relaciones \cup
                  {MisionPersonaje(hilos[t].pid, hilos[t].mid, hilos[t].orden,
                                   "aceptar")}
            /\ secuencia' = secuencia + 1
    /\ UNCHANGED <<personajes, misiones, aceptadas, encoladas, resp, ganado,
                   peticiones>>

\* ColaMisiones.enqueue, its query
EnqueueLeer(t, pid, mid) ==
    /\ Empieza(t, "enqueue", pid, mid, 0, {}, SiguienteOrden(pid))
    /\ UNCHANGED <<personajes, misiones, relaciones, secuencia, aceptadas,
                   encoladas, resp, ganado>>

\* siguiente_orden worked out again at the time of the insert.
siguiente_orden_releido(t) == SiguienteOrden(hilos[t].pid)

\* siguiente_orden: worked out from the row the query of this request found.
siguiente_orden(t) == hilos[t].siguiente_orden

\* ColaMisiones.enqueue, from the new row to db.commit()
EnqueueInsertar(t) ==
    /\ hilos[t].pc = "enqueue"
    /\ Termina(t)
    /\ secuencia < MaxSecuencia
    /\ relaciones' = relaciones \cup
          {MisionPersonaje(hilos[t].pid, hilos[t].mid, siguiente_orden(t),
                           "enqueue")}
    /\ secuencia' = secuencia + 1
    /\ UNCHANGED <<personajes, misiones, aceptadas, encoladas, resp, ganado,
                   peticiones>>

\* completar_mision, its three queries
CompletarLeer(t, pid, mid) ==
    /\ \E relacion \in First(RelacionACompletar(pid, mid)) :
          Empieza(t, "completar", pid, mid, 0, relacion, 0)
    /\ UNCHANGED <<personajes, misiones, relaciones, secuencia, aceptadas,
                   encoladas, resp, ganado>>

\* "personaje.experiencia += mision.experiencia": the value the UPDATE of
\* this request writes, from the experiencia its own query read.
ExperienciaAEscribir(t) ==
    (CHOOSE e \in hilos[t].personaje : TRUE)
        + (CHOOSE e \in hilos[t].mision : TRUE)

\* completar_mision, from its checks to db.commit() and the response, whose
\* experiencia_ganada is mision.experiencia.
CompletarConfirmar(t) ==
    /\ hilos[t].pc = "completar"
    /\ Termina(t)
    /\ IF \/ hilos[t].mision = {} \/ hilos[t].personaje = {}
          \/ hilos[t].relacion = {}
          \/ \E r \in hilos[t].relacion : r.estado
       THEN UNCHANGED <<personajes, relaciones, ganado>>
       ELSE /\ personajes' =
                  [personajes EXCEPT ![hilos[t].pid] = ExperienciaAEscribir(t)]
            /\ relaciones' =
                  {IF \E l \in hilos[t].relacion : l.seq = r.seq
                   THEN [r EXCEPT !.estado = TRUE] ELSE r : r \in relaciones}
            /\ ganado' =
                  [ganado EXCEPT ![hilos[t].pid] = @ + misiones[hilos[t].mid]]
    /\ UNCHANGED <<misiones, secuencia, aceptadas, encoladas, resp,
                   peticiones>>

\* The store when the concurrent requests start: every character, with no
\* experience yet, every quest, and no row.
InitConcurrente ==
    /\ personajes = [pid \in PersonajeIds |-> 0]
    /\ misiones \in [MisionIds -> Recompensas]
    /\ relaciones = {}
    /\ secuencia = 0
    /\ aceptadas = {}
    /\ encoladas = {}
    /\ resp = Respuesta("inicio", NULL, NULL, 0, 200, "", NULL, 0)
    /\ hilos = [t \in Hilos |-> HiloLibre]
    /\ ganado = [pid \in PersonajeIds |-> 0]
    /\ peticiones = 0

NextConcurrente ==
    \/ \E t \in Hilos, pid \in PersonajeIds, mid \in MisionIds, orden \in Ordenes :
          AceptarLeer(t, pid, mid, orden)
    \/ \E t \in Hilos : AceptarInsertar(t)
    \/ \E t \in Hilos, pid \in PersonajeIds, mid \in MisionIds :
          EnqueueLeer(t, pid, mid)
    \/ \E t \in Hilos : EnqueueInsertar(t)
    \/ \E t \in Hilos, pid \in PersonajeIds, mid \in MisionIds :
          CompletarLeer(t, pid, mid)
    \/ \E t \in Hilos : CompletarConfirmar(t)

SpecConcurrente == InitConcurrente /\ [][NextConcurrente]_vars

\* =================================================================== claims
\* The pending rows of character pid and quest mid in the table rels.
PendientesDelPar(rels, pid, mid) ==
    {r \in rels : r.personaje_id = pid /\ r.mision_id = mid /\ ~r.estado}

\* The pending rows of character pid in the table rels.
PendientesDe(rels, pid) == {r \in rels : r.personaje_id = pid /\ ~r.estado}

\* The resolved rows of character pid and quest mid.
ResueltasDelPar(pid, mid) ==
    {r \in relaciones : r.personaje_id = pid /\ r.mision_id = mid /\ r.estado}

\* C1 (as stated): for every existing character and existing quest there is
\* at most one pending row of misiones_personaje.
C1_UnaPendientePorPar ==
    \A pid \in DOMAIN personajes, mid \in DOMAIN misiones :
        Cardinality(PendientesDelPar(relaciones, pid, mid)) <= 1

\* C2 (as stated): for every existing character, size is the number of its
\* pending rows, and that number is the length of the list of active quests.
C2_SizeIgualListado ==
    \A pid \in DOMAIN personajes :
        /\ size(pid) = Cardinality(PendientesDe(relaciones, pid))
        /\ \A rs \in OrdenadasAsc(RelacionesActivas(pid)) :
               Len(rs) = Cardinality(PendientesDe(relaciones, pid))

\* C3 (as stated): enqueue(C, Q) followed immediately by dequeue(C) returns
\* Q (here for an existing character C and an existing quest Q).
C3_EnqueueDequeue ==
    [][(resp.op = "enqueue" /\ resp'.op = "dequeue" /\ resp'.pid = resp.pid
          /\ resp.pid \in DOMAIN personajes /\ resp.mid \in DOMAIN misiones)
        => (resp'.status = 200 /\ resp'.val = resp.mid)]_vars

\* C3 (amended): enqueue(C, Q) on a character with no pending row, followed
\* immediately by dequeue(C), returns Q.
C3_EnqueueDequeueColaVacia ==
    [][(resp.op = "enqueue" /\ resp.antes = 0
          /\ resp'.op = "dequeue" /\ resp'.pid = resp.pid)
        => (resp'.status = 200 /\ resp'.val = resp.mid)]_vars

\* C3 witness: a dequeue took the only pending row of a character that also
\* has a resolved row of smaller orden, and the quest it returned was put
\* there by enqueue and never by aceptar_mision.
C3_Witness ==
    /\ resp.op = "dequeue" /\ resp.status = 200 /\ resp.antes = 1
    /\ <<resp.pid, resp.val>> \in encoladas \ aceptadas
    /\ \E r \in relaciones : r.personaje_id = resp.pid /\ r.estado

C5_AceptarConflicto ==
    [][(resp'.op = "aceptar_mision")
        => /\ (resp'.pid \in DOMAIN personajes /\ resp'.mid \in DOMAIN misiones)
              => IF PendientesDelPar(relaciones, resp'.pid, resp'.mid) # {}
                 THEN resp'.status = 400 /\ relaciones' = relaciones
                 ELSE /\ resp'.status = 200
                      /\ \E n \in relaciones' \ relaciones :
                            /\ relaciones' = relaciones \cup {n}
                            /\ n.personaje_id = resp'.pid
                            /\ n.mision_id = resp'.mid
                            /\ n.orden = resp'.orden
                            /\ ~n.estado
           /\ (resp.op = "aceptar_mision" /\ resp.status = 200
                 /\ resp'.pid = resp.pid /\ resp'.mid = resp.mid)
              => resp'.status = 400]_vars

\* C5 witness: aceptar_mision was accepted for a pair that has a resolved
\* row already.
C5_Witness ==
    /\ resp.op = "aceptar_mision" /\ resp.status = 200
    /\ ResueltasDelPar(resp.pid, resp.mid) # {}

\* C6 (as stated): while aceptar_mision has never succeeded for the pair,
\* completar_mision of an existing character and an existing quest answers
\* 400 and changes neither the experience nor a row.
C6_CompletarSinAceptar ==
    [][(resp'.op = "completar_mision"
          /\ <<resp'.pid, resp'.mid>> \notin aceptadas
          /\ resp'.pid \in DOMAIN personajes /\ resp'.mid \in DOMAIN misiones)
        => (resp'.status = 400 /\ personajes' = personajes
              /\ relaciones' = relaciones)]_vars

\* C6 (amended): while neither aceptar_mision nor enqueue has succeeded for
\* the pair, completar_mision fails (400 when the character and the quest
\* are both there, 404 otherwise) and changes neither the experience nor a
\* row.
C6_CompletarSinAsignar ==
    [][(resp'.op = "completar_mision"
          /\ <<resp'.pid, resp'.mid>> \notin (aceptadas \cup encoladas))
        => /\ resp'.status =
                 IF resp'.pid \in DOMAIN personajes /\ resp'.mid \in DOMAIN misiones
                 THEN 400 ELSE 404
           /\ personajes' = personajes
           /\ relaciones' = relaciones]_vars

\* C6 witness: completar_mision answered 400 for a pair never accepted nor
\* enqueued, of a character that has a pending row of another quest.
C6_Witness ==
    /\ resp.op = "completar_mision" /\ resp.status = 400
    /\ <<resp.pid, resp.mid>> \notin (aceptadas \cup encoladas)
    /\ PendientesDe(relaciones, resp.pid) # {}

\* C7: an accepted completar_mision adds the reward of the quest to the
\* experience of the character, resolves exactly the pending row of the pair
\* of least orden, leaves the other rows, the other characters and the
\* quests as they were, and returns the reward and the new experience.
C7_CompletarEfecto ==
    [][(resp'.op = "completar_mision" /\ resp'.status = 200)
        => LET pid == resp'.pid
               mid == resp'.mid
               cand == PendientesDelPar(relaciones, pid, mid)
           IN  /\ pid \in DOMAIN personajes /\ mid \in DOMAIN misiones
               /\ DOMAIN personajes' = DOMAIN personajes
               /\ personajes'[pid] = personajes[pid] + misiones[mid]
               /\ \A q \in DOMAIN personajes \ {pid} :
                     personajes'[q] = personajes[q]
               /\ misiones' = misiones
               /\ \E r \in cand :
                     /\ \A s \in cand \ {r} : r.orden < s.orden
                     /\ relaciones' = (relaciones \ {r})
                                          \cup {[r EXCEPT !.estado = TRUE]}
               /\ resp'.val.experiencia_ganada = misiones[mid]
               /\ resp'.val.experiencia_total = personajes'[pid]]_vars

\* C7 witness: completar_mision was accepted while the pair had two pending
\* rows, so one of them is still pending, and another character exists.
C7_Witness ==
    /\ resp.op = "completar_mision" /\ resp.status = 200
    /\ PendientesDelPar(relaciones, resp.pid, resp.mid) # {}
    /\ DOMAIN personajes \ {resp.pid} # {}

\* C8 (as stated): a completar_mision right after an accepted one of the same
\* pair answers 400 and credits no experience.
C8_CompletarNoRepetible ==
    [][(resp.op = "completar_mision" /\ resp.status = 200
          /\ resp'.op = "completar_mision"
          /\ resp'.pid = resp.pid /\ resp'.mid = resp.mid)
        => (resp'.status = 400 /\ personajes' = personajes)]_vars

\* C9 (as stated): the list of active quests answers 404 when the character
\* does not exist, and otherwise the quests of the pending rows of the
\* character by ascending orden.
C9_ListarActivas ==
    (resp.op = "obtener_misiones")
    => IF resp.pid \notin DOMAIN personajes
       THEN resp.status = 404
       ELSE /\ resp.status = 200
            /\ \E rs \in OrdenadasAsc(PendientesDe(relaciones, resp.pid)) :
                  resp.val = [i \in 1..Len(rs) |-> rs[i].mision_id]

\* C10: dequeue and first of a character with no pending row answer 404
\* "La cola esta vacia" and change nothing, resolved rows or not; otherwise
\* dequeue deletes exactly one row, a pending row of the character of least
\* orden, and returns its mision_id.
C10_ColaVacia ==
    [][(resp'.op \in {"dequeue", "first"})
        => LET pend == PendientesDe(relaciones, resp'.pid) IN
           /\ personajes' = personajes /\ misiones' = misiones
           /\ IF pend = {}
              THEN /\ resp'.status = 404
                   /\ resp'.detail = "La cola esta vacia"
                   /\ relaciones' = relaciones
              ELSE (resp'.op = "dequeue")
                   => /\ resp'.status = 200
                      /\ \E r \in pend :
                            /\ \A s \in pend : r.orden <= s.orden
                            /\ relaciones' = relaciones \ {r}
                            /\ resp'.val = r.mision_id]_vars

\* C10 witness: dequeue answered 404 for a character whose rows are all
\* resolved.
C10_Witness ==
    /\ resp.op = "dequeue" /\ resp.status = 404
    /\ \E r \in relaciones : r.personaje_id = resp.pid /\ r.estado

\* C11 (as stated): the experience of every character is never negative.
C11_ExperienciaNoNegativa ==
    \A pid \in DOMAIN personajes : personajes[pid] >= 0

\* C15: the experience of an existing character changes only in a step of
\* completar_mision that answers 200; no step removes a character, and a
\* new character starts at 0.
C15_SoloCompletarDaExperiencia ==
    [][/\ DOMAIN personajes \subseteq DOMAIN personajes'
       /\ \A pid \in DOMAIN personajes' \ DOMAIN personajes :
             personajes'[pid] = 0
       /\ \A pid \in DOMAIN personajes :
             (personajes'[pid] # personajes[pid])
             => (resp'.op = "completar_mision" /\ resp'.status = 200
                   /\ resp'.pid = pid)]_vars

\* C15 witness: dequeue removed the row of an existing quest of reward 1
\* from the queue of an existing character whose experience is still 0.
C15_Witness ==
    /\ resp.op = "dequeue" /\ resp.status = 200
    /\ resp.pid \in DOMAIN personajes
    /\ resp.val \in DOMAIN misiones
    /\ misiones[resp.val] > 0
    /\ personajes[resp.pid] = 0

\* C16 (as stated): when the character has a pending row, first answers 200
\* with an existing quest, the quest of a pending row of least orden (here
\* for an existing character).
C16_FirstDevuelveMision ==
    (resp.op = "first" /\ resp.pid \in DOMAIN personajes
       /\ PendientesDe(relaciones, resp.pid) # {})
    => /\ resp.status = 200
       /\ resp.val \in DOMAIN misiones
       /\ \E r \in PendientesDe(relaciones, resp.pid) :
             /\ r.mision_id = resp.val
             /\ \A s \in PendientesDe(relaciones, resp.pid) : r.orden <= s.orden

C18_CicloDeVida ==
    [][/\ \A r \in relaciones :
             r.estado => \E n \in relaciones' :
                            /\ n.seq = r.seq /\ n.estado
                            /\ n.personaje_id = r.personaje_id
                            /\ n.orden = r.orden
       /\ (resp'.op = "dequeue")
             => \A r \in relaciones \ relaciones' : ~r.estado
       /\ (resp'.op = "completar_mision")
             => /\ {r.seq : r \in relaciones'} = {r.seq : r \in relaciones}
                /\ \A r \in relaciones \ relaciones' : ~r.estado
       /\ \A pid \in PersonajeIds :
             Cardinality({r \in relaciones' : r.personaje_id = pid /\ r.estado})
               >= Cardinality({r \in relaciones : r.personaje_id = pid /\ r.estado})
      ]_vars

\* C18 witness: dequeue removed a pending row of a quest of which the same
\* character keeps a resolved row.
C18_Witness ==
    /\ resp.op = "dequeue" /\ resp.status = 200
    /\ resp.val # NULL
    /\ ResueltasDelPar(resp.pid, resp.val) # {}

\* C19: completar_mision never answers "La mision ya fue completada para
\* este personaje".
C19_YaCompletadaInalcanzable ==
    resp.detail # "La mision ya fue completada para este personaje"

\* C19 witness: completar_mision was asked for a pair whose only rows are
\* resolved, and answered 400 with the other message.
C19_Witness ==
    /\ resp.op = "completar_mision" /\ resp.status = 400
    /\ resp.detail = "El personaje no tiene asignada esta mision"
    /\ ResueltasDelPar(resp.pid, resp.mid) # {}
    /\ PendientesDelPar(relaciones, resp.pid, resp.mid) = {}

\* C12: the step of aceptar_mision that inserts goes by the check its own
\* request made: a request that found no pending row of its pair inserts one
\* more, whatever the other requests have inserted since.
C12_AceptarInsertaSinReleer ==
    [][\A t \in Hilos :
         (hilos[t].pc = "aceptar" /\ hilos'[t].pc = "libre"
            /\ hilos[t].relacion = {}
            /\ hilos[t].personaje # {} /\ hilos[t].mision # {})
         => Cardinality(PendientesDelPar(relaciones', hilos[t].pid, hilos[t].mid))
              = Cardinality(PendientesDelPar(relaciones, hilos[t].pid,
                                             hilos[t].mid)) + 1]_vars

\* C12 witness: two pending rows of one character and one quest, both
\* inserted by aceptar_mision.
C12_Witness ==
    \E r1, r2 \in relaciones :
        /\ r1.seq # r2.seq
        /\ r1.personaje_id = r2.personaje_id /\ r1.mision_id = r2.mision_id
        /\ r1.via = "aceptar" /\ r2.via = "aceptar"
        /\ ~r1.estado /\ ~r2.estado

\* C13: the row enqueue inserts has the orden its own request worked out
\* from its query, whatever the other requests have inserted since.
C13_EnqueueInsertaSinReleer ==
    [][\A t \in Hilos :
         (hilos[t].pc = "enqueue" /\ hilos'[t].pc = "libre")
         => \E n \in relaciones' \ relaciones :
              /\ relaciones' = relaciones \cup {n}
              /\ n.personaje_id = hilos[t].pid
              /\ n.orden = hilos[t].siguiente_orden]_vars

\* C13 witness: the only rows of the table are two pending rows of one
\* character with the same orden, both inserted by enqueue.
C13_Witness ==
    \E r1, r2 \in relaciones :
        /\ r1.seq # r2.seq
        /\ relaciones = {r1, r2}
        /\ r1.personaje_id = r2.personaje_id
        /\ r1.orden = r2.orden
        /\ r1.via = "enqueue" /\ r2.via = "enqueue"
        /\ ~r1.estado /\ ~r2.estado

\* C14 (as stated): once no completar_mision is under way, the experience of
\* every character is its initial experience, 0, plus the sum of the
\* experiencia_ganada the accepted requests returned.
C14_SinCreditoPerdido ==
    (\A t \in Hilos : hilos[t].pc # "completar")
    => \A pid \in DOMAIN ganado : personajes[pid] = ganado[pid]
====
